---- MODULE Spec2Model ----
(***************************************************************************)
(* Simple Logger / API Monitor (SLAM) for Express.                         *)
(*                                                                         *)
(* The model follows src/index.js (the current middleware) and             *)
(* src/unnamed/part_000 (the legacy middleware, where 'close' records      *)
(* through a 100 ms timer); the variable legacy says which one is          *)
(* installed.  Node runs every handler to completion, so each handler is   *)
(* one atomic action.                                                      *)
(*                                                                         *)
(* Modelling decisions:                                                    *)
(*  - numbers are exact: an average is a rational <<numerator,             *)
(*    denominator>> in lowest terms, computed by the code's formula;       *)
(*    floating-point rounding is not modelled;                             *)
(*  - the wall clock is non-decreasing and is read at segment starts;      *)
(*  - a key built by string concatenation is the sequence of its           *)
(*    non-empty pieces;                                                    *)
(*  - res.slam.uuid, timestamp, hostname and finished are written and      *)
(*    never read by the code: they are left out; the console output is     *)
(*    modelled where the environment is looked at (SpecEnvs) and left out  *)
(*    elsewhere;                                                           *)
(*  - observed and evicted are history variables: they record what the     *)
(*    store was given and what it deleted, and no action reads them.       *)
(*                                                                         *)
(* Specifications:                                                         *)
(*  - Spec: both middlewares, the service's requests and snapshot          *)
(*    requests, a moving clock; nothing throws;                            *)
(*  - SpecHealth: the current middleware with /slamHealth served too;      *)
(*  - SpecServing: the current middleware after it has recorded up to      *)
(*    MaxStored requests, then serving further requests;                   *)
(*  - SpecFaults: both middlewares where a step of the setup or next()     *)
(*    may throw and a request may carry a value that cannot be coerced;    *)
(*  - SpecSteady: the current middleware after one request per segment     *)
(*    for about two hours, the clock then moving segment by segment;       *)
(*  - SpecLoaded: the current middleware with 10 to 20 recorded requests,  *)
(*    some of them failures, asked for /slamHealth;                        *)
(*  - SpecSegments, SpecKeys, SpecEnvs, SpecOrders: tsToSegment and        *)
(*    segmentToTs, the operation key, log() under two environments and     *)
(*    log() of two requests in both orders, applied to drawn inputs; the   *)
(*    variable applied holds the call and what it returned.                *)
(***************************************************************************)
EXTENDS Integers, Sequences, FiniteSets, TLC

(* ---------------------------- bounds ---------------------------------- *)
MaxRequests == 2
MaxSignals == 2
MaxTicks == 2
MaxStored == 3

(* The wall clock is read at instants 23, 24 or 25 segments apart: the     *)
(* steps that land on either side of the retention horizon.                *)
TickSegments == {23, 24, 25}
StartSegment == 100
Durations == {100, 200}
RssValues == {50, 80}

RequestIds == 1..MaxRequests

(* The requests the host framework delivers: req.method, req.baseUrl,      *)
(* req.route.path ("" when no route was resolved) and, for req.params,     *)
(* req.query and req.body, each key with the type its value coerces to.    *)
NoInfo == [k \in {} |-> ""]

Reqs ==
  { [method |-> "GET",  baseUrl |-> "",     route |-> "/items",
     params |-> NoInfo, query |-> [id |-> "number"], body |-> NoInfo],
    [method |-> "GET",  baseUrl |-> "/",    route |-> "/slamCounts",
     params |-> NoInfo, query |-> NoInfo, body |-> NoInfo] }

(* A request whose query holds an object that has no primitive value, as   *)
(* ?id[toString]=1 parses to { id: { toString: '1' } }: coercing it to a   *)
(* number throws a TypeError.                                              *)
HostileReq ==
  [method |-> "GET", baseUrl |-> "", route |-> "/items",
   params |-> NoInfo, query |-> [id |-> "TypeError"], body |-> NoInfo]

(* What may go wrong inside the middleware's try block: nothing, a step of *)
(* the setup before the completion handlers are attached (os.hostname()),  *)
(* or the call of next() itself.                                           *)
Faults == {"none", "hostname", "next"}

(* The request that reads the combined health report. *)
HealthReq ==
  [method |-> "GET", baseUrl |-> "/", route |-> "/slamHealth",
   params |-> NoInfo, query |-> NoInfo, body |-> NoInfo]

NoReq == [method |-> "", baseUrl |-> "", route |-> "",
          params |-> NoInfo, query |-> NoInfo, body |-> NoInfo]

(* What a request's own handler may answer: the service's route handler,   *)
(* or the framework's 404 when no route matched.                           *)
StatusCodes(req) == IF req.route = "" THEN {404} ELSE {200, 500}

(* ------------------------- time segments ------------------------------ *)
SegmentMs == 1000 * 60 * 5

(* tsToSegment(ts): a missing (falsy) ts is replaced by the wall clock. *)
tsToSegment(ts, clock) ==
  LET t == IF ts = 0 THEN clock ELSE ts
  IN  t \div SegmentMs

segmentToTs(seg) == seg * SegmentMs

(* ------------------------- rational numbers --------------------------- *)
RECURSIVE GCD(_, _)
GCD(a, b) == IF b = 0 THEN a ELSE GCD(b, a % b)

Rat(n, d) == LET g == GCD(n, d) IN <<n \div g, d \div g>>

Zero == <<0, 1>>

RatOfInt(n) == <<n, 1>>

(* a + b, a * n and Math.round(a) for a rational a >= 0 *)
RatPlus(a, b) == Rat(a[1] * b[2] + b[1] * a[2], a[2] * b[2])

RatTimes(a, n) == Rat(a[1] * n, a[2])

Round(a) == (2 * a[1] + a[2]) \div (2 * a[2])

RECURSIVE SumOver(_, _)
SumOver(S, f) ==
  IF S = {} THEN 0
  ELSE LET x == CHOOSE y \in S : TRUE
       IN  f[x] + SumOver(S \ {x}, f)

(* ----------------------------- state ---------------------------------- *)
VARIABLES
  now,                \* wall clock, ms since the epoch
  ticks,              \* number of clock advances so far
  legacy,             \* TRUE: the middleware of src/unnamed/part_000 is installed
  storeCreated,       \* global.slamCounts exists
  slamCounts,         \* global.slamCounts: operation key -> aggregate
  keyOrder,           \* insertion order of the keys of global.slamCounts
  slamSystemMetrics,  \* global.slamSystemMetrics
  requests,           \* per request: req, res, res.slam, pending timers
  observed,           \* history: the observations the store has admitted (a bag)
  evicted,            \* history: the segment entries deleted so far
  applied             \* the last application of a function looked at alone

vars == <<now, ticks, legacy, storeCreated, slamCounts, keyOrder,
          slamSystemMetrics, requests, observed, evicted, applied>>

(* No function has been applied alone. *)
NoCall == [kind |-> "none"]

NoSlam == [timeSegment |-> 0, logged |-> FALSE, method |-> <<>>,
           statusCode |-> 0, durationMs |-> 0]

(* The body of a health report before it is computed. *)
NoHealth ==
  [api |-> [totalRequests |-> 0, avgResponseTime |-> 0, errorRate |-> Zero,
            errorCount |-> 0, routeCount |-> 0],
   health |-> [status |-> "", memoryPressure |-> FALSE,
               highErrorRate |-> FALSE, highLoad |-> FALSE]]

(* reply: "" before the response, then "json" (a mapping was sent),        *)
(* "nobody" (an empty body was sent) or "TypeError" (the handler threw).   *)
(* elapsed: what process.hrtime(time) gives the completion handlers of the *)
(* request, in ms (they run within 100 ms of each other: one reading).     *)
(* listening: the completion handlers are attached to res; nextCalls: how  *)
(* often the middleware has called next(); uncaught: a completion handler  *)
(* of the request has thrown into the emitter that called it.              *)
IdleRequest ==
  [phase |-> "idle", req |-> NoReq, elapsed |-> 0, statusCode |-> 200,
   slam |-> NoSlam,
   signals |-> 0, timers |-> 0, reply |-> "", body |-> <<>>,
   report |-> NoHealth, stored |-> 0,
   listening |-> FALSE, nextCalls |-> 0, uncaught |-> FALSE]

(* ------------------------- the middleware ----------------------------- *)
(* if (!global.slamCounts) global.slamCounts = {} *)
EnsureStoreSkipped(created) == created

EnsureStore(created) == IF ~created THEN TRUE ELSE created

(* getRoute(req): the pieces of the route pattern, empty pieces dropped. *)
NonEmpty(pieces) == SelectSeq(pieces, LAMBDA p : p # "")

getRouteKeepingSlash(req) ==
  IF req.route # ""
  THEN NonEmpty(<<req.baseUrl, req.route>>)
  ELSE <<"unknown route">>

getRoute(req) ==
  IF req.route # ""
  THEN NonEmpty(<<IF req.baseUrl = "/" THEN "" ELSE req.baseUrl, req.route>>)
  ELSE <<"unknown route">>

(* `${ req.method } ${ getRoute(req) }` *)
MethodOf(req) == NonEmpty(<<req.method, " ">>) \o getRoute(req)

(* logInfo(o): each key with its namespace and coerced type. *)
logInfo(o) == [k \in DOMAIN o |-> [namespace |-> k, type |-> o[k]]]

(* fixValueType(v): (+v) == v throws for a value without a primitive. *)
logInfoThrows(o) == \E k \in DOMAIN o : o[k] = "TypeError"

(* The assignment of namespaces at the end of log() throws. *)
NamespacesThrow(req) ==
  logInfoThrows(req.params) \/ logInfoThrows(req.query) \/ logInfoThrows(req.body)

(* process.cpuUsage().user, in microseconds: the process is read once per  *)
(* call, and the cpu reading is drawn together with the memory reading.    *)
cpuUsage(rss) == 1000 * rss

(* collectSystemMetrics(): one memory and one cpu sample per segment,       *)
(* segments older than 2 hours dropped.                                     *)
collectSystemMetricsOverwriting(metrics, clock, rss) ==
  LET timeSegment == tsToSegment(0, clock)
      memory == [k \in DOMAIN metrics.memory \cup {timeSegment} |->
                   IF k = timeSegment THEN [rss |-> rss, timestamp |-> clock]
                   ELSE metrics.memory[k]]
      cpu == [k \in DOMAIN metrics.cpu \cup {timeSegment} |->
                IF k = timeSegment
                THEN [user |-> cpuUsage(rss), timestamp |-> clock]
                ELSE metrics.cpu[k]]
      minSegment == timeSegment - 23
      Keep(m) == [seg \in {k \in DOMAIN m : ~(k < minSegment)} |-> m[seg]]
  IN  [memory |-> Keep(memory), cpu |-> Keep(cpu)]

collectSystemMetrics(metrics, clock, rss) ==
  LET timeSegment == tsToSegment(0, clock)
      memory == IF timeSegment \in DOMAIN metrics.memory
                THEN metrics.memory
                ELSE metrics.memory @@
                       (timeSegment :> [rss |-> rss, timestamp |-> clock])
      cpu == IF timeSegment \in DOMAIN metrics.cpu
             THEN metrics.cpu
             ELSE metrics.cpu @@
                    (timeSegment :> [user |-> cpuUsage(rss),
                                     timestamp |-> clock])
      minSegment == timeSegment - 23
      Keep(m) == [seg \in {k \in DOMAIN m : ~(k < minSegment)} |-> m[seg]]
  IN  [memory |-> Keep(memory), cpu |-> Keep(cpu)]

(* ------------------------------ log ----------------------------------- *)
(* if (res.slam && res.slam.logged) return *)
AlreadyLoggedIgnored(slam) == FALSE

AlreadyLogged(slam) == slam.logged

(* (durationMs + (prev.avgDurationMs * prev.count)) / (prev.count + 1) *)
new_avg_dur_smoothed(durationMs, prevAvg, prevCount) ==
  IF prevCount = 0 THEN RatOfInt(durationMs)
  ELSE Rat(durationMs * prevAvg[2] + prevAvg[1], prevAvg[2] * 2)

new_avg_dur(durationMs, prevAvg, prevCount) ==
  Rat(durationMs * prevAvg[2] + prevAvg[1] * prevCount,
      prevAvg[2] * (prevCount + 1))

(* Create if not exists: the operation aggregate. *)
CreateOperation(counts, method) ==
  IF method \in DOMAIN counts
  THEN counts
  ELSE counts @@ (method :> [count |-> 0, avgDurationMs |-> Zero,
                             statusCodes |-> <<>>])

(* Create if not exists: the status code aggregate of the operation. *)
CreateStatusCodeAlways(counts, method, statusCode) ==
  [counts EXCEPT ![method].statusCodes =
     [c \in (DOMAIN @) \cup {statusCode} |->
        IF c = statusCode THEN [count |-> 0, segments |-> <<>>] ELSE @[c]]]

CreateStatusCode(counts, method, statusCode) ==
  IF statusCode \in DOMAIN counts[method].statusCodes
  THEN counts
  ELSE [counts EXCEPT ![method].statusCodes =
          @ @@ (statusCode :> [count |-> 0, segments |-> <<>>])]

(* global.slamCounts[obj.method].statusCodes[obj.statusCode].count++ *)
IncrementStatusCodeSkipped(counts, method, statusCode) == counts

IncrementStatusCode(counts, method, statusCode) ==
  [counts EXCEPT ![method].statusCodes[statusCode].count = @ + 1]

(* global.slamCounts[obj.method].count++ *)
IncrementOperationSkipped(counts, method) == counts

IncrementOperationTwice(counts, method) ==
  [counts EXCEPT ![method].count = @ + 2]

IncrementOperation(counts, method) ==
  [counts EXCEPT ![method].count = @ + 1]

(* prev is a reference to global.slamCounts[obj.method], taken before the  *)
(* increments and read after them: prev.count is the incremented count,    *)
(* prev.avgDurationMs the average not yet replaced.                        *)
AverageOperation(counts, method, durationMs) ==
  LET prev == counts[method]
  IN  [counts EXCEPT ![method].avgDurationMs =
         new_avg_dur(durationMs, prev.avgDurationMs, prev.count)]

(* Create if not exists: the entry of the observation's segment. *)
CreateSegmentAlways(segments, timeSegment) ==
  [k \in (DOMAIN segments) \cup {timeSegment} |->
     IF k = timeSegment THEN [count |-> 0, avgDurationMs |-> Zero]
     ELSE segments[k]]

CreateSegment(segments, timeSegment) ==
  IF timeSegment \in DOMAIN segments
  THEN segments
  ELSE segments @@ (timeSegment :> [count |-> 0, avgDurationMs |-> Zero])

(* Store count and avg duration: prev is the entry before the increment. *)
UpdateSegmentAfterIncrement(segments, timeSegment, durationMs) ==
  LET prev == segments[timeSegment]
  IN  [segments EXCEPT ![timeSegment] =
         [count |-> prev.count + 1,
          avgDurationMs |->
            new_avg_dur(durationMs, prev.avgDurationMs, prev.count + 1)]]

UpdateSegment(segments, timeSegment, durationMs) ==
  LET prev == segments[timeSegment]
  IN  [segments EXCEPT ![timeSegment] =
         [count |-> prev.count + 1,
          avgDurationMs |->
            new_avg_dur(durationMs, prev.avgDurationMs, prev.count)]]

(* var minK = tsToSegment() - 23 *)
MinKTwoLate(clock) == tsToSegment(0, clock) - 25

MinKOneEarly(clock) == tsToSegment(0, clock) - 22

MinK(clock) == tsToSegment(0, clock) - 23

(* for (var k in segments) if (k < minK) delete segments[k] *)
CleanupSkipped(segments, clock) == segments

CleanupBelowCurrent(segments, clock) ==
  [k \in {j \in DOMAIN segments : ~(j < tsToSegment(0, clock))} |-> segments[k]]

Cleanup(segments, clock) ==
  [k \in {j \in DOMAIN segments : ~(j < MinK(clock))} |-> segments[k]]

(* The store after log() has recorded obs at wall-clock time clock. *)
LogCountsSweeping(counts, obj, clock) ==
  LET c1 == CreateOperation(counts, obj.method)
      c2 == CreateStatusCode(c1, obj.method, obj.statusCode)
      c3 == IncrementStatusCode(c2, obj.method, obj.statusCode)
      c4 == IncrementOperation(c3, obj.method)
      c5 == AverageOperation(c4, obj.method, obj.durationMs)
      segments == c5[obj.method].statusCodes[obj.statusCode].segments
      s1 == CreateSegment(segments, obj.timeSegment)
      s2 == UpdateSegment(s1, obj.timeSegment, obj.durationMs)
      c6 == [c5 EXCEPT ![obj.method].statusCodes[obj.statusCode].segments = s2]
  IN  [m \in DOMAIN c6 |->
         [c6[m] EXCEPT !.statusCodes =
            [c \in DOMAIN c6[m].statusCodes |->
               [c6[m].statusCodes[c] EXCEPT
                  !.segments = Cleanup(@, clock)]]]]

LogCounts(counts, obj, clock) ==
  LET c1 == CreateOperation(counts, obj.method)
      c2 == CreateStatusCode(c1, obj.method, obj.statusCode)
      c3 == IncrementStatusCode(c2, obj.method, obj.statusCode)
      c4 == IncrementOperation(c3, obj.method)
      c5 == AverageOperation(c4, obj.method, obj.durationMs)
      segments == c5[obj.method].statusCodes[obj.statusCode].segments
      s1 == CreateSegment(segments, obj.timeSegment)
      s2 == UpdateSegment(s1, obj.timeSegment, obj.durationMs)
      s3 == Cleanup(s2, clock)
  IN  [c5 EXCEPT ![obj.method].statusCodes[obj.statusCode].segments = s3]

(* global.slamCounts[obj.method].namespaces = { params, query, body } *)
SetNamespaces(counts, method, req) ==
  [counts EXCEPT ![method] =
     [count |-> @.count, avgDurationMs |-> @.avgDurationMs,
      statusCodes |-> @.statusCodes,
      namespaces |-> [params |-> logInfo(req.params),
                      query |-> logInfo(req.query),
                      body |-> logInfo(req.body)]]]

(* The segment keys that recording obs at clock deletes. *)
Deleted(counts, obj, clock) ==
  LET before == IF obj.method \in DOMAIN counts
                   /\ obj.statusCode \in DOMAIN counts[obj.method].statusCodes
                THEN DOMAIN counts[obj.method].statusCodes[obj.statusCode].segments
                ELSE {}
      after == DOMAIN LogCounts(counts, obj, clock)
                        [obj.method].statusCodes[obj.statusCode].segments
  IN  { <<obj.method, obj.statusCode, k>> :
          k \in (before \cup {obj.timeSegment}) \ after }

(* The history with one more observation: a bag, observation -> number. *)
Admit(bag, o) ==
  IF o \in DOMAIN bag THEN [bag EXCEPT ![o] = @ + 1] ELSE bag @@ (o :> 1)

(* The store update of log() for request r, with its history. *)
Record(r, obj) ==
  /\ slamCounts' = IF legacy \/ NamespacesThrow(requests[r].req)
                   THEN LogCounts(slamCounts, obj, now)
                   ELSE SetNamespaces(LogCounts(slamCounts, obj, now),
                                      obj.method, requests[r].req)
  /\ keyOrder' = IF obj.method \in DOMAIN slamCounts
                 THEN keyOrder
                 ELSE Append(keyOrder, obj.method)
  /\ observed' = Admit(observed,
       [method |-> obj.method, statusCode |-> obj.statusCode,
        timeSegment |-> obj.timeSegment, durationMs |-> obj.durationMs])
  /\ evicted' = evicted \cup Deleted(slamCounts, obj, now)

(* ------------------------ GET /slamCounts ----------------------------- *)
(* Object.entries(counts).map(([key, value]) => ({ key, ...value })) *)
Entries(counts, order) ==
  [i \in 1..Len(order) |-> [key |-> order[i], value |-> counts[order[i]]]]

(* arr.sort((a, b) => b.count - a.count): stable, descending by count. *)
InsertByCount(arr, o) ==
  LET ahead == Cardinality({i \in 1..Len(arr) : arr[i].value.count >= o.value.count})
  IN  SubSeq(arr, 1, ahead) \o <<o>> \o SubSeq(arr, ahead + 1, Len(arr))

SortByCountSkipped(arr) == arr

RECURSIVE SortByCount(_)
SortByCount(arr) ==
  IF arr = <<>> THEN <<>>
  ELSE InsertByCount(SortByCount(SubSeq(arr, 1, Len(arr) - 1)), arr[Len(arr)])

(* What the handler of GET /slamCounts sends. *)
SlamCountsReplyTorn(created, counts, order) ==
  [reply |-> "json",
   body |-> IF order = <<>> THEN <<>>
            ELSE Entries(IncrementOperation(counts, order[1]), order),
   statusCode |-> 200]

SlamCountsReply(created, counts, order) ==
  IF ~created
  THEN IF legacy
       THEN [reply |-> "nobody", body |-> <<>>, statusCode |-> 200]
       ELSE [reply |-> "TypeError", body |-> <<>>, statusCode |-> 500]
  ELSE [reply |-> "json",
        body |-> IF legacy THEN Entries(counts, order)
                 ELSE SortByCount(Entries(counts, order)),
        statusCode |-> 200]

(* ------------------------ GET /slamHealth ----------------------------- *)
(* Object.values(apiCounts).forEach(route => ...): the three running sums. *)
RECURSIVE HealthTotalsAllErrors(_, _)
HealthTotalsAllErrors(counts, keys) ==
  IF keys = {}
  THEN [totalRequests |-> 0, totalDuration |-> Zero, errorCount |-> 0]
  ELSE LET m == CHOOSE k \in keys : TRUE
           rest == HealthTotalsAllErrors(counts, keys \ {m})
           route == counts[m]
           errors == DOMAIN route.statusCodes
       IN  [totalRequests |-> rest.totalRequests + route.count,
            totalDuration |-> RatPlus(rest.totalDuration,
                                      RatTimes(route.avgDurationMs, route.count)),
            errorCount |-> rest.errorCount
               + SumOver(errors, [c \in errors |-> route.statusCodes[c].count])]

RECURSIVE HealthTotals(_, _)
HealthTotals(counts, keys) ==
  IF keys = {}
  THEN [totalRequests |-> 0, totalDuration |-> Zero, errorCount |-> 0]
  ELSE LET m == CHOOSE k \in keys : TRUE
           rest == HealthTotals(counts, keys \ {m})
           route == counts[m]
           errors == {c \in DOMAIN route.statusCodes : c >= 400}
       IN  [totalRequests |-> rest.totalRequests + route.count,
            totalDuration |-> RatPlus(rest.totalDuration,
                                      RatTimes(route.avgDurationMs, route.count)),
            errorCount |-> rest.errorCount
               + SumOver(errors, [c \in errors |-> route.statusCodes[c].count])]

(* Object.keys(systemMetrics.memory).sort().slice(-5): the memory samples  *)
(* of the (at most) five latest segments, oldest first.                    *)
RECURSIVE SortedKeys(_)
SortedKeys(S) ==
  IF S = {} THEN <<>>
  ELSE LET top == CHOOSE k \in S : \A j \in S : j <= k
       IN  Append(SortedKeys(S \ {top}), top)

recentMemorySegments(memory) ==
  LET keys == SortedKeys(DOMAIN memory)
      from == IF Len(keys) > 5 THEN Len(keys) - 4 ELSE 1
  IN  [i \in 1..(Len(keys) - from + 1) |-> memory[keys[from + i - 1]]]

(* (newestRss / oldestRss) > 1.5 over at least three recent samples *)
memoryGrowthConcern(memory) ==
  LET recent == recentMemorySegments(memory)
  IN  IF Len(recent) >= 3
      THEN 2 * recent[Len(recent)].rss > 3 * recent[1].rss
      ELSE FALSE

(* What the handler of GET /slamHealth sends; highMemoryUsage and highLoad *)
(* are what process.memoryUsage(), v8 and os.loadavg() give the handler.   *)
SlamHealthReply(created, counts, metrics, highMemoryUsage, highLoad) ==
  LET apiCounts == IF created THEN counts ELSE <<>>
      totals == HealthTotals(apiCounts, DOMAIN apiCounts)
      avgResponseTime ==
        IF totals.totalRequests > 0
        THEN Rat(totals.totalDuration[1],
                 totals.totalDuration[2] * totals.totalRequests)
        ELSE Zero
      errorRate ==
        IF totals.totalRequests > 0
        THEN Rat(totals.errorCount * 100, totals.totalRequests)
        ELSE Zero
      memoryPressure == highMemoryUsage \/ memoryGrowthConcern(metrics.memory)
  IN  [api |-> [totalRequests |-> totals.totalRequests,
                avgResponseTime |-> Round(avgResponseTime),
                errorRate |-> Rat(Round(RatTimes(errorRate, 100)), 100),
                errorCount |-> totals.errorCount,
                routeCount |-> Cardinality(DOMAIN apiCounts)],
       health |-> [status |-> IF errorRate[1] > 10 * errorRate[2]
                                 \/ memoryPressure \/ highLoad
                              THEN "warning" ELSE "healthy",
                   memoryPressure |-> memoryPressure,
                   highErrorRate |-> errorRate[1] > 5 * errorRate[2],
                   highLoad |-> highLoad]]

(* ----------------------------- actions -------------------------------- *)
Init ==
  /\ now = segmentToTs(StartSegment)
  /\ ticks = 0
  /\ legacy \in BOOLEAN
  /\ storeCreated = FALSE
  /\ slamCounts = <<>>
  /\ keyOrder = <<>>
  /\ slamSystemMetrics = [memory |-> <<>>, cpu |-> <<>>]
  /\ requests = [r \in RequestIds |-> IdleRequest]
  /\ observed = <<>>
  /\ evicted = {}
  /\ applied = NoCall

(* The wall clock moves on. *)
Tick(d) ==
  /\ ticks < MaxTicks
  /\ now' = now + segmentToTs(d)
  /\ ticks' = ticks + 1
  /\ UNCHANGED <<legacy, applied, storeCreated, slamCounts, keyOrder,
                 slamSystemMetrics, requests, observed, evicted>>

(* res.slam = { ..., timeSegment: tsToSegment() } *)
SlamSegmentLate(clock) == tsToSegment(0, clock) + 1

SlamSegment(clock) == tsToSegment(0, clock)

(* try { ...; res.on('finish', ...); res.on('close', ...); next() }        *)
(* catch (e) { next() }: whether the handlers get attached, and how often  *)
(* next is called.                                                         *)
Attached(fault) == fault # "hostname"

NextCalls(fault) == IF fault = "next" THEN 2 ELSE 1

(* app.use(function (req, res, next) {...}): request r arrives. *)
Middleware(r, q, rss, ms, fault) ==
  /\ requests[r].phase = "idle"
  /\ IF r = 1 THEN TRUE ELSE requests[r - 1].phase # "idle"
  /\ storeCreated' = EnsureStore(storeCreated)
  /\ slamSystemMetrics' =
       IF legacy THEN slamSystemMetrics
       ELSE collectSystemMetrics(slamSystemMetrics, now, rss)
  /\ requests' = [requests EXCEPT ![r] =
       [IdleRequest EXCEPT !.phase = "handling", !.req = q, !.elapsed = ms,
                           !.slam.timeSegment = SlamSegment(now),
                           !.listening = Attached(fault),
                           !.nextCalls = NextCalls(fault)]]
  /\ UNCHANGED <<now, ticks, legacy, applied, slamCounts, keyOrder, observed, evicted>>

(* The service's own handler (or the framework's 404) sets the status. *)
Respond(r, code) ==
  /\ requests[r].phase = "handling"
  /\ requests[r].req.route \notin {"/slamCounts", "/slamHealth"}
  /\ requests' = [requests EXCEPT ![r].phase = "responded",
                                  ![r].statusCode = code,
                                  ![r].reply = "json"]
  /\ UNCHANGED <<now, ticks, legacy, applied, storeCreated, slamCounts, keyOrder,
                 slamSystemMetrics, observed, evicted>>

(* app.get('/slamCounts', ...) *)
GetSlamCountsStoring(r) ==
  /\ requests[r].phase = "handling"
  /\ requests[r].req.route = "/slamCounts"
  /\ LET out == SlamCountsReply(storeCreated, slamCounts, keyOrder)
     IN  requests' = [requests EXCEPT ![r].phase = "responded",
                                     ![r].statusCode = out.statusCode,
                                     ![r].reply = out.reply,
                                     ![r].body = out.body]
  /\ slamCounts' = [m \in DOMAIN slamCounts |->
                      [slamCounts[m] EXCEPT !.statusCodes = <<>>]]
  /\ UNCHANGED <<now, ticks, legacy, applied, storeCreated, keyOrder,
                 slamSystemMetrics, observed, evicted>>

GetSlamCounts(r) ==
  /\ requests[r].phase = "handling"
  /\ requests[r].req.route = "/slamCounts"
  /\ LET out == SlamCountsReply(storeCreated, slamCounts, keyOrder)
     IN  requests' = [requests EXCEPT ![r].phase = "responded",
                                     ![r].statusCode = out.statusCode,
                                     ![r].reply = out.reply,
                                     ![r].body = out.body]
  /\ UNCHANGED <<now, ticks, legacy, applied, storeCreated, slamCounts, keyOrder,
                 slamSystemMetrics, observed, evicted>>

(* app.get('/slamHealth', ...): a route of the current middleware only. *)
GetSlamHealth(r, highMemoryUsage, highLoad) ==
  /\ ~legacy
  /\ requests[r].phase = "handling"
  /\ requests[r].req.route = "/slamHealth"
  /\ requests' = [requests EXCEPT
       ![r].phase = "responded",
       ![r].statusCode = 200,
       ![r].reply = "json",
       ![r].report = SlamHealthReply(storeCreated, slamCounts,
                                     slamSystemMetrics, highMemoryUsage, highLoad)]
  /\ UNCHANGED <<now, ticks, legacy, applied, storeCreated, slamCounts, keyOrder,
                 slamSystemMetrics, observed, evicted>>

(* Once res.slam.logged is set, nothing reads req, the elapsed time or the *)
(* other fields of res.slam again (later handlers only test the flag): the *)
(* model keeps the flag, the pending timers and the history, no more.      *)
Settle(rq) ==
  IF rq.slam.logged
  THEN [IdleRequest EXCEPT !.phase = rq.phase, !.signals = rq.signals,
                           !.timers = rq.timers, !.stored = rq.stored,
                           !.slam.logged = TRUE,
                           !.listening = rq.listening,
                           !.nextCalls = rq.nextCalls,
                           !.uncaught = rq.uncaught]
  ELSE rq

(* A connection closed before the response is sent gets no response. *)
Aborted(rq) ==
  IF rq.phase = "handling" THEN [rq EXCEPT !.phase = "aborted"] ELSE rq

(* res.slam with the fields the completion handlers store. *)
Completed(r) ==
  [requests[r].slam EXCEPT !.method = MethodOf(requests[r].req),
                           !.statusCode = requests[r].statusCode,
                           !.durationMs = requests[r].elapsed]

(* index.js: log(), the handler of both 'finish' and 'close'. *)
log(r) ==
  IF AlreadyLogged(requests[r].slam)
  THEN /\ requests' = [requests EXCEPT ![r] =
                          Settle(Aborted([@ EXCEPT !.signals = @ + 1]))]
       /\ UNCHANGED <<slamCounts, keyOrder, observed, evicted>>
  ELSE LET obj == [Completed(r) EXCEPT !.logged = TRUE]
       IN  /\ Record(r, obj)
           /\ requests' = [requests EXCEPT ![r] =
                Settle(Aborted([@ EXCEPT
                  !.slam = obj,
                  !.signals = @ + 1,
                  !.stored = @ + 1,
                  !.uncaught = NamespacesThrow(requests[r].req)]))]

(* part_000: if (!res.slam.logged) log(res.slam); res.slam.logged = true *)
NotLoggedNever(slam) == FALSE

NotLogged(slam) == ~slam.logged

LegacyLog(r, obj, signal, timer) ==
  IF NotLogged(obj) /\ ~AlreadyLogged(obj)
  THEN /\ Record(r, obj)
       /\ requests' = [requests EXCEPT ![r] =
            Settle([@ EXCEPT !.slam = [obj EXCEPT !.logged = TRUE],
                             !.signals = @ + signal,
                             !.timers = @ - timer,
                             !.stored = @ + 1])]
  ELSE /\ requests' = [requests EXCEPT ![r] =
            Settle([@ EXCEPT !.slam = [obj EXCEPT !.logged = TRUE],
                             !.signals = @ + signal,
                             !.timers = @ - timer])]
       /\ UNCHANGED <<slamCounts, keyOrder, observed, evicted>>

(* A signal of a response that no handler of the middleware listens to. *)
Unheard(r) ==
  /\ requests' = [requests EXCEPT ![r] = Aborted([@ EXCEPT !.signals = @ + 1])]
  /\ UNCHANGED <<slamCounts, keyOrder, observed, evicted>>

(* res.on('finish', ...) *)
Finish(r) ==
  /\ requests[r].phase = "responded"
  /\ requests[r].signals < MaxSignals
  /\ IF ~requests[r].listening THEN Unheard(r)
     ELSE IF legacy THEN LegacyLog(r, Completed(r), 1, 0)
     ELSE log(r)
  /\ UNCHANGED <<now, ticks, legacy, applied, storeCreated, slamSystemMetrics>>

(* res.on('close', ...): the legacy handler records through a timer. *)
Close(r) ==
  /\ requests[r].phase \in {"handling", "responded", "aborted"}
  /\ requests[r].signals < MaxSignals
  /\ IF ~requests[r].listening THEN Unheard(r)
     ELSE IF legacy
     THEN /\ requests' = [requests EXCEPT ![r] =
               Settle(Aborted([@ EXCEPT !.slam = Completed(r),
                                        !.signals = @ + 1,
                                        !.timers = @ + 1]))]
          /\ UNCHANGED <<slamCounts, keyOrder, observed, evicted>>
     ELSE log(r)
  /\ UNCHANGED <<now, ticks, legacy, applied, storeCreated, slamSystemMetrics>>

(* part_000: the function given to setTimeout(..., 100) runs. *)
Timer(r) ==
  /\ legacy
  /\ requests[r].timers > 0
  /\ LegacyLog(r, requests[r].slam, 0, 1)
  /\ UNCHANGED <<now, ticks, legacy, applied, storeCreated, slamSystemMetrics>>

Next ==
  \/ \E d \in TickSegments : Tick(d)
  \/ \E r \in RequestIds, q \in Reqs, rss \in RssValues, ms \in Durations :
       Middleware(r, q, rss, ms, "none")
  \/ \E r \in RequestIds : \E code \in StatusCodes(requests[r].req) : Respond(r, code)
  \/ \E r \in RequestIds : GetSlamCounts(r)
  \/ \E r \in RequestIds : Finish(r)
  \/ \E r \in RequestIds : Close(r)
  \/ \E r \in RequestIds : Timer(r)

Spec == Init /\ [][Next]_vars

(* The current middleware serving its own read routes beside the service: *)
(* snapshot and health requests arrive with the service's own requests.   *)
InitCurrent == Init /\ ~legacy

NextHealth ==
  \/ \E d \in TickSegments : Tick(d)
  \/ \E r \in RequestIds, q \in Reqs \cup {HealthReq},
        rss \in RssValues, ms \in Durations :
       Middleware(r, q, rss, ms, "none")
  \/ \E r \in RequestIds : \E code \in StatusCodes(requests[r].req) : Respond(r, code)
  \/ \E r \in RequestIds : GetSlamCounts(r)
  \/ \E r \in RequestIds, highMemoryUsage \in BOOLEAN, highLoad \in BOOLEAN :
       GetSlamHealth(r, highMemoryUsage, highLoad)
  \/ \E r \in RequestIds : Finish(r)
  \/ \E r \in RequestIds : Close(r)

SpecHealth == InitCurrent /\ [][NextHealth]_vars

(* The current middleware after it has recorded up to MaxStored requests   *)
(* that came one after the other within one segment: the store, the order  *)
(* of its keys and the history that log() leaves behind.                   *)
RECURSIVE Earlier(_)
Earlier(reqs) ==
  IF reqs = <<>>
  THEN [counts |-> <<>>, order |-> <<>>, bag |-> <<>>]
  ELSE LET prev == Earlier(SubSeq(reqs, 1, Len(reqs) - 1))
           q == reqs[Len(reqs)]
           obj == [timeSegment |-> StartSegment, logged |-> TRUE,
                   method |-> MethodOf(q), statusCode |-> 200,
                   durationMs |-> CHOOSE d \in Durations :
                                    \A e \in Durations : d <= e]
       IN  [counts |-> SetNamespaces(
                         LogCounts(prev.counts, obj, segmentToTs(StartSegment)),
                         obj.method, q),
            order |-> IF obj.method \in DOMAIN prev.counts
                      THEN prev.order
                      ELSE Append(prev.order, obj.method),
            bag |-> Admit(prev.bag,
                          [method |-> obj.method, statusCode |-> obj.statusCode,
                           timeSegment |-> obj.timeSegment,
                           durationMs |-> obj.durationMs])]

InitServing ==
  /\ now = segmentToTs(StartSegment)
  /\ ticks = 0
  /\ legacy = FALSE
  /\ \E n \in 0..MaxStored : \E reqs \in [1..n -> Reqs] :
       /\ storeCreated = (n > 0)
       /\ slamCounts = Earlier(reqs).counts
       /\ keyOrder = Earlier(reqs).order
       /\ observed = Earlier(reqs).bag
       /\ slamSystemMetrics =
            IF n > 0
            THEN collectSystemMetrics([memory |-> <<>>, cpu |-> <<>>], now,
                                      CHOOSE v \in RssValues :
                                        \A w \in RssValues : v <= w)
            ELSE [memory |-> <<>>, cpu |-> <<>>]
  /\ requests = [r \in RequestIds |-> IdleRequest]
  /\ evicted = {}
  /\ applied = NoCall

NextServing ==
  \/ \E r \in RequestIds, q \in Reqs, rss \in RssValues, ms \in Durations :
       Middleware(r, q, rss, ms, "none")
  \/ \E r \in RequestIds : \E code \in StatusCodes(requests[r].req) : Respond(r, code)
  \/ \E r \in RequestIds : GetSlamCounts(r)
  \/ \E r \in RequestIds : Finish(r)
  \/ \E r \in RequestIds : Close(r)

SpecServing == InitServing /\ [][NextServing]_vars

(* Both middlewares in an environment where a step of the setup or the    *)
(* next handler may throw, and where a request may carry a value that      *)
(* cannot be coerced.                                                      *)
NextFaults ==
  \/ \E r \in RequestIds, q \in Reqs \cup {HostileReq}, rss \in RssValues,
        ms \in Durations, fault \in Faults :
       Middleware(r, q, rss, ms, fault)
  \/ \E r \in RequestIds : \E code \in StatusCodes(requests[r].req) : Respond(r, code)
  \/ \E r \in RequestIds : GetSlamCounts(r)
  \/ \E r \in RequestIds : Finish(r)
  \/ \E r \in RequestIds : Close(r)
  \/ \E r \in RequestIds : Timer(r)

SpecFaults == Init /\ [][NextFaults]_vars

(* The current middleware after hours of steady traffic: one request to   *)
(* the first route was served and recorded in each of the segments        *)
(* first..last, and now the clock moves on segment by segment.            *)
SteadyHours == {23, 26}
SteadyTicks == {1, 2}

(* One more request to the first route: it arrives at the start of        *)
(* segment seg, where the process is read as rss, and is recorded with    *)
(* status code when it completes.                                         *)
Served(past, seg, code, rss) ==
  LET q == CHOOSE x \in Reqs : x.route = "/items"
      ms == CHOOSE d \in Durations : \A e \in Durations : d <= e
      obj == [timeSegment |-> seg, logged |-> TRUE,
              method |-> MethodOf(q), statusCode |-> code,
              durationMs |-> ms]
  IN  [counts |-> SetNamespaces(
                    LogCounts(past.counts, obj, segmentToTs(seg) + ms),
                    obj.method, q),
       order |-> IF obj.method \in DOMAIN past.counts
                 THEN past.order
                 ELSE Append(past.order, obj.method),
       bag |-> Admit(past.bag,
                     [method |-> obj.method, statusCode |-> obj.statusCode,
                      timeSegment |-> obj.timeSegment,
                      durationMs |-> obj.durationMs]),
       metrics |-> collectSystemMetrics(past.metrics, segmentToTs(seg), rss)]

(* One more segment of steady traffic. *)
SteadySegment(past, seg) ==
  Served(past, seg, 200, CHOOSE v \in RssValues : \A w \in RssValues : v <= w)

NoPast ==
  [counts |-> <<>>, order |-> <<>>, bag |-> <<>>,
   metrics |-> [memory |-> <<>>, cpu |-> <<>>]]

RECURSIVE Steady(_, _, _)
Steady(past, first, last) ==
  IF first > last THEN past
  ELSE LET next == SteadySegment(past, first)
       IN  (* the comparison has next evaluated before the next segment *)
           IF next = next THEN Steady(next, first + 1, last) ELSE past

InitSteady ==
  /\ now = segmentToTs(StartSegment + 1)
  /\ ticks = 0
  /\ legacy = FALSE
  /\ storeCreated = TRUE
  /\ \E n \in SteadyHours :
       LET past == Steady(NoPast, StartSegment - n + 1, StartSegment)
       IN  /\ slamCounts = past.counts
           /\ keyOrder = past.order
           /\ observed = past.bag
           /\ slamSystemMetrics = past.metrics
  /\ requests = [r \in RequestIds |-> IdleRequest]
  /\ evicted = {}
  /\ applied = NoCall

NextSteady ==
  \/ \E d \in SteadyTicks : Tick(d)
  \/ \E r \in RequestIds, q \in Reqs, rss \in RssValues, ms \in Durations :
       Middleware(r, q, rss, ms, "none")
  \/ \E r \in RequestIds : \E code \in StatusCodes(requests[r].req) : Respond(r, code)
  \/ \E r \in RequestIds : GetSlamCounts(r)
  \/ \E r \in RequestIds : Finish(r)
  \/ \E r \in RequestIds : Close(r)

SpecSteady == InitSteady /\ [][NextSteady]_vars

(* The current middleware under load, asked for its health.  Before, it   *)
(* served one request in each of the two segments before the current one  *)
(* and the rest in the current one, some of them answered with 500; the   *)
(* process had the sizes rss[1], rss[2], rss[3] in the three segments.    *)
Loads == {<<10, 0>>, <<19, 1>>, <<9, 1>>, <<18, 2>>, <<8, 2>>}
Growths == {<<50, 50, 50>>, <<50, 50, 80>>}

RECURSIVE Loaded(_, _, _, _)
Loaded(past, ok, errors, rss) ==
  IF ok + errors = 0 THEN past
  ELSE LET seg == IF past.counts = <<>> THEN StartSegment - 2
                  ELSE IF Cardinality(DOMAIN past.metrics.memory) = 1
                       THEN StartSegment - 1
                       ELSE StartSegment
           code == IF ok > 0 THEN 200 ELSE 500
           next == Served(past, seg, code, rss[seg - StartSegment + 3])
       IN  (* the comparison has next evaluated before the next request *)
           IF next = next
           THEN Loaded(next, IF ok > 0 THEN ok - 1 ELSE 0,
                       IF ok > 0 THEN errors ELSE errors - 1, rss)
           ELSE past

InitLoaded ==
  /\ now = segmentToTs(StartSegment)
  /\ ticks = 0
  /\ legacy = FALSE
  /\ storeCreated = TRUE
  /\ \E load \in Loads, rss \in Growths :
       LET past == Loaded(NoPast, load[1], load[2], rss)
       IN  /\ slamCounts = past.counts
           /\ keyOrder = past.order
           /\ observed = past.bag
           /\ slamSystemMetrics = past.metrics
  /\ requests = [r \in RequestIds |-> IdleRequest]
  /\ evicted = {}
  /\ applied = NoCall

NextLoaded ==
  \/ \E r \in RequestIds, q \in Reqs \cup {HealthReq},
        rss \in RssValues, ms \in Durations :
       Middleware(r, q, rss, ms, "none")
  \/ \E r \in RequestIds : \E code \in StatusCodes(requests[r].req) : Respond(r, code)
  \/ \E r \in RequestIds : GetSlamCounts(r)
  \/ \E r \in RequestIds, highMemoryUsage \in BOOLEAN, highLoad \in BOOLEAN :
       GetSlamHealth(r, highMemoryUsage, highLoad)
  \/ \E r \in RequestIds : Finish(r)
  \/ \E r \in RequestIds : Close(r)

SpecLoaded == InitLoaded /\ [][NextLoaded]_vars

(* ---------------- functions looked at on their own ------------------- *)
(* Timestamps (ms) on both sides of segment boundaries, and segments.     *)
Timestamps ==
  {0, 1, SegmentMs - 1, SegmentMs, SegmentMs + 1, 2 * SegmentMs - 1,
   2 * SegmentMs, 3 * SegmentMs, segmentToTs(StartSegment),
   segmentToTs(StartSegment + 1) - 1}

Segments == {0, 1, 2, 3, StartSegment, StartSegment + 1}

(* tsToSegment(t1) and tsToSegment(t2), each converted back. *)
ApplyTsToSegment(t1, t2) ==
  /\ applied' = [kind |-> "tsToSegment", t1 |-> t1, t2 |-> t2,
                 s1 |-> tsToSegment(t1, now), s2 |-> tsToSegment(t2, now),
                 start1 |-> segmentToTs(tsToSegment(t1, now)),
                 end1 |-> segmentToTs(tsToSegment(t1, now) + 1)]
  /\ UNCHANGED <<now, ticks, legacy, storeCreated, slamCounts, keyOrder,
                 slamSystemMetrics, requests, observed, evicted>>

(* tsToSegment(segmentToTs(seg)) *)
ApplySegmentToTs(seg) ==
  /\ applied' = [kind |-> "segmentToTs", seg |-> seg, ts |-> segmentToTs(seg),
                 back |-> tsToSegment(segmentToTs(seg), now)]
  /\ UNCHANGED <<now, ticks, legacy, storeCreated, slamCounts, keyOrder,
                 slamSystemMetrics, requests, observed, evicted>>

NextSegments ==
  \/ \E d \in TickSegments : Tick(d)
  \/ \E t1 \in Timestamps, t2 \in Timestamps : ApplyTsToSegment(t1, t2)
  \/ \E seg \in Segments : ApplySegmentToTs(seg)

SpecSegments == Init /\ [][NextSegments]_vars

(* Requests of every shape the framework hands over: any method, mounted  *)
(* at no base URL, at '/' or at '/api', with or without a resolved route. *)
RouteReqs ==
  { [method |-> m, baseUrl |-> b, route |-> p,
     params |-> NoInfo, query |-> NoInfo, body |-> NoInfo] :
      m \in {"GET", "POST", "DELETE"}, b \in {"", "/", "/api"},
      p \in {"", "/items", "/items/:id", "/slamCounts"} }

(* log() for request q answered with code: the key it builds and the keys *)
(* of the store after it.                                                 *)
ApplyLog(q, code, ms) ==
  /\ applied' =
       [kind |-> "log", req |-> q,
        method |-> MethodOf(q),
        keys |-> DOMAIN LogCounts(slamCounts,
                          [NoSlam EXCEPT !.timeSegment = tsToSegment(0, now),
                                         !.logged = TRUE,
                                         !.method = MethodOf(q),
                                         !.statusCode = code,
                                         !.durationMs = ms], now)]
  /\ UNCHANGED <<now, ticks, legacy, storeCreated, slamCounts, keyOrder,
                 slamSystemMetrics, requests, observed, evicted>>

NextKeys ==
  \/ \E d \in TickSegments : Tick(d)
  \/ \E q \in RouteReqs, ms \in Durations :
       \E code \in StatusCodes(q) : ApplyLog(q, code, ms)

SpecKeys == Init /\ [][NextKeys]_vars

(* process.env as the middleware reads it ("" and 0: not set), and the     *)
(* host name.                                                              *)
Envs ==
  [SLAM_DEBUG : {"", "true"}, SLAM_LOG_LONG_REQUESTS : {"", "false"},
   SLAM_MAX_REQUEST_LENGTH : {0, 150}, HOSTNAME : {"alpha", "beta"}]

(* Nothing set. *)
NoEnv ==
  [SLAM_DEBUG |-> "", SLAM_LOG_LONG_REQUESTS |-> "",
   SLAM_MAX_REQUEST_LENGTH |-> 0, HOSTNAME |-> "alpha"]

(* const long_req = process.env.SLAM_MAX_REQUEST_LENGTH || 5000 *)
long_req(env) ==
  IF env.SLAM_MAX_REQUEST_LENGTH = 0 THEN 5000 ELSE env.SLAM_MAX_REQUEST_LENGTH

(* What log() writes to the console for obj. *)
Console(env, obj) ==
  (IF env.SLAM_LOG_LONG_REQUESTS # "false" /\ obj.durationMs > long_req(env)
   THEN <<[line |-> "Long request:", method |-> obj.method,
           durationMs |-> obj.durationMs]>>
   ELSE <<>>)
  \o (IF env.SLAM_DEBUG = "true"
      THEN <<[line |-> "res.slam", hostname |-> env.HOSTNAME,
              method |-> obj.method, durationMs |-> obj.durationMs]>>
      ELSE <<>>)

(* log() of the current middleware under env: the store it leaves and      *)
(* what it prints.                                                         *)
LogUnderSkippingLong(env, counts, obj, clock, req) ==
  [counts |-> IF obj.durationMs > long_req(env) THEN counts
              ELSE SetNamespaces(LogCounts(counts, obj, clock), obj.method, req),
   console |-> Console(env, obj)]

LogUnder(env, counts, obj, clock, req) ==
  [counts |-> SetNamespaces(LogCounts(counts, obj, clock), obj.method, req),
   console |-> Console(env, obj)]

(* The same request recorded from the same store with nothing set and    *)
(* under env.                                                            *)
ApplyLogUnder(env, q, code, ms) ==
  /\ LET obj == [NoSlam EXCEPT !.timeSegment = tsToSegment(0, now),
                               !.logged = TRUE,
                               !.method = MethodOf(q),
                               !.statusCode = code,
                               !.durationMs = ms]
     IN  applied' = [kind |-> "env", env1 |-> NoEnv, env2 |-> env,
                     out1 |-> LogUnder(NoEnv, slamCounts, obj, now, q),
                     out2 |-> LogUnder(env, slamCounts, obj, now, q)]
  /\ UNCHANGED <<now, ticks, legacy, storeCreated, slamCounts, keyOrder,
                 slamSystemMetrics, requests, observed, evicted>>

NextEnvs ==
  \E env \in Envs, q \in Reqs, ms \in Durations :
    \E code \in StatusCodes(q) : ApplyLogUnder(env, q, code, ms)

SpecEnvs == InitServing /\ [][NextEnvs]_vars

(* Two requests that complete at the same reading of the clock, recorded  *)
(* in one order and in the other from the same store.  The requests are   *)
(* drawn with the store: each has its route and query, its status code,   *)
(* its duration and the segment in which it started.                      *)
OrderReqs == Reqs \cup {[q EXCEPT !.query = NoInfo] : q \in Reqs}
OrderClocks == {0, 23, 24}
OrderStarts == {0, 24}

Completions(clock) ==
  [req : OrderReqs, statusCode : {200, 500}, durationMs : Durations,
   timeSegment : {tsToSegment(0, clock) - d : d \in OrderStarts}]

(* log() of the current middleware for a completed request. *)
LogOf(counts, c, clock) ==
  LET obj == [NoSlam EXCEPT !.timeSegment = c.timeSegment,
                            !.logged = TRUE,
                            !.method = MethodOf(c.req),
                            !.statusCode = c.statusCode,
                            !.durationMs = c.durationMs]
  IN  SetNamespaces(LogCounts(counts, obj, clock), obj.method, c.req)

InitOrders ==
  /\ \E d \in OrderClocks : now = segmentToTs(StartSegment + d)
  /\ ticks = 0
  /\ legacy = FALSE
  /\ \E n \in 0..MaxStored : \E reqs \in [1..n -> Reqs] :
       /\ storeCreated = (n > 0)
       /\ slamCounts = Earlier(reqs).counts
       /\ keyOrder = Earlier(reqs).order
       /\ observed = Earlier(reqs).bag
       /\ slamSystemMetrics =
            IF n > 0
            THEN collectSystemMetrics([memory |-> <<>>, cpu |-> <<>>],
                                      segmentToTs(StartSegment),
                                      CHOOSE v \in RssValues :
                                        \A w \in RssValues : v <= w)
            ELSE [memory |-> <<>>, cpu |-> <<>>]
  /\ requests = [r \in RequestIds |-> IdleRequest]
  /\ evicted = {}
  /\ \E a \in Completions(now), b \in Completions(now) :
       applied = [kind |-> "drawn", first |-> a, second |-> b]

ApplyBothOrders ==
  /\ applied.kind = "drawn"
  /\ applied' = [kind |-> "orders",
                 first |-> applied.first, second |-> applied.second,
                 ab |-> LogOf(LogOf(slamCounts, applied.first, now),
                              applied.second, now),
                 ba |-> LogOf(LogOf(slamCounts, applied.second, now),
                              applied.first, now)]
  /\ UNCHANGED <<now, ticks, legacy, storeCreated, slamCounts, keyOrder,
                 slamSystemMetrics, requests, observed, evicted>>

NextOrders == ApplyBothOrders

SpecOrders == InitOrders /\ [][NextOrders]_vars

(* ---------------------------- properties ----------------------------- *)
CurrentSegment == tsToSegment(0, now)

(* The segment map of an outcome, empty while the outcome does not exist. *)
SegmentsOf(counts, m, c) ==
  IF m \in DOMAIN counts
  THEN IF c \in DOMAIN counts[m].statusCodes
       THEN counts[m].statusCodes[c].segments
       ELSE <<>>
  ELSE <<>>

(* The observations of the history that satisfy a condition, how many     *)
(* they are and what their durations add up to.                           *)
ObservedOf(m) == {o \in DOMAIN observed : o.method = m}

ObservedAs(m, c) == {o \in ObservedOf(m) : o.statusCode = c}

ObservedIn(m, c, seg) == {o \in ObservedAs(m, c) : o.timeSegment = seg}

HowMany(S) == SumOver(S, observed)

TotalDuration(S) ==
  SumOver(S, [o \in DOMAIN observed |-> o.durationMs * observed[o]])

Mean(S) == Rat(TotalDuration(S), HowMany(S))

(* The observation admitted by this step, if any. *)
JustRecorded(o) ==
  /\ o \in DOMAIN observed'
  /\ IF o \in DOMAIN observed THEN observed'[o] = observed[o] + 1 ELSE TRUE

(* C1: for one request, however many 'finish' and 'close' signals fire    *)
(* (and, in the legacy variant, however many timers run), the store is    *)
(* updated at most once.                                                  *)
C1_AtMostOneRecord ==
  \A r \in RequestIds : requests[r].stored <= 1

(* Legacy: two 'close' signals fired, both timers ran, one update. *)
C1_Witness ==
  \E r \in RequestIds :
    /\ legacy
    /\ requests[r].phase = "aborted"
    /\ requests[r].signals >= 2
    /\ requests[r].timers = 0
    /\ requests[r].stored = 1

(* C2: once N requests have been recorded under one (operation, outcome), *)
(* the outcome's lifetime count is N: every admitted observation counts   *)
(* once, identical ones included, and each recorded request is one        *)
(* observation.                                                           *)
C2_CountIsN ==
  /\ \A o \in DOMAIN observed :
       /\ o.method \in DOMAIN slamCounts
       /\ o.statusCode \in DOMAIN slamCounts[o.method].statusCodes
  /\ \A m \in DOMAIN slamCounts :
       \A c \in DOMAIN slamCounts[m].statusCodes :
         slamCounts[m].statusCodes[c].count = HowMany(ObservedAs(m, c))
  /\ HowMany(DOMAIN observed) =
       SumOver(RequestIds, [r \in RequestIds |-> requests[r].stored])

(* Two requests with identical field values were both counted. *)
C2_Witness ==
  \E o \in DOMAIN observed :
    /\ observed[o] = 2
    /\ slamCounts[o.method].statusCodes[o.statusCode].count = 2

(* C3: an operation's avgDurationMs is the arithmetic mean of all the     *)
(* durations ever recorded for the operation.                             *)
C3_OperationAvgIsMean ==
  \A m \in DOMAIN slamCounts :
    slamCounts[m].avgDurationMs = Mean(ObservedOf(m))

(* C4: a retained (operation, outcome, segment) entry counts exactly the  *)
(* observations recorded into that segment and averages their durations.  *)
C4_SegmentEntryExact ==
  \A m \in DOMAIN slamCounts :
    \A c \in DOMAIN slamCounts[m].statusCodes :
      \A seg \in DOMAIN slamCounts[m].statusCodes[c].segments :
        LET entry == slamCounts[m].statusCodes[c].segments[seg]
        IN  /\ entry.count = HowMany(ObservedIn(m, c, seg))
            /\ entry.avgDurationMs = Mean(ObservedIn(m, c, seg))

(* An entry holding two observations of different durations. *)
C4_Witness ==
  \E m \in DOMAIN slamCounts :
    \E c \in DOMAIN slamCounts[m].statusCodes :
      \E seg \in DOMAIN slamCounts[m].statusCodes[c].segments :
        /\ slamCounts[m].statusCodes[c].segments[seg].count = 2
        /\ Cardinality(ObservedIn(m, c, seg)) = 2
        /\ slamCounts[m].statusCodes[c].segments[seg].avgDurationMs = <<150, 1>>

(* What recording o does to the segment map of its outcome. *)
SegmentsBefore(o) == SegmentsOf(slamCounts, o.method, o.statusCode)

SegmentsAfter(o) == SegmentsOf(slamCounts', o.method, o.statusCode)

RecordedEarlier(o, seg) ==
  \E p \in DOMAIN observed :
    /\ p.method = o.method
    /\ p.statusCode = o.statusCode
    /\ p.timeSegment = seg

(* C5 as stated: after an observation at segment S, recording another     *)
(* for the same operation and outcome at segment S + 25 leaves a segment  *)
(* map without S and with S + 25.                                         *)
C5_EvictsAndKeeps ==
  [][\A o \in DOMAIN observed' :
       (JustRecorded(o) /\ RecordedEarlier(o, o.timeSegment - 25))
       => /\ (o.timeSegment - 25) \notin DOMAIN SegmentsAfter(o)
          /\ o.timeSegment \in DOMAIN SegmentsAfter(o)]_vars

(* C5 amended: the same, for an observation recorded while the current   *)
(* segment is at most 23 segments after the observation's own segment.   *)
C5_EvictsAndKeepsInWindow ==
  [][\A o \in DOMAIN observed' :
       (/\ JustRecorded(o)
        /\ RecordedEarlier(o, o.timeSegment - 25)
        /\ CurrentSegment <= o.timeSegment + 23)
       => /\ (o.timeSegment - 25) \notin DOMAIN SegmentsAfter(o)
          /\ o.timeSegment \in DOMAIN SegmentsAfter(o)]_vars

(* Observations at S and at S + 25 of one outcome: S is gone, S + 25 kept. *)
C5_Witness ==
  \E o \in DOMAIN observed :
    /\ \E p \in DOMAIN observed :
         /\ p.method = o.method
         /\ p.statusCode = o.statusCode
         /\ p.timeSegment = o.timeSegment - 25
    /\ <<o.method, o.statusCode, o.timeSegment - 25>> \in evicted
    /\ DOMAIN SegmentsOf(slamCounts, o.method, o.statusCode) = {o.timeSegment}

(* C6: a Record made while the current segment is c removes from the      *)
(* outcome's segment map exactly the keys below c - 23: none of them is   *)
(* left, and every earlier entry with key >= c - 23 is still there,       *)
(* unchanged unless it is the entry of the observation itself.            *)
C6_EvictsExactlyBelowHorizon ==
  [][\A o \in DOMAIN observed' :
       JustRecorded(o)
       => /\ \A k \in DOMAIN SegmentsAfter(o) : k >= CurrentSegment - 23
          /\ \A k \in DOMAIN SegmentsBefore(o) :
               k >= CurrentSegment - 23
               => /\ k \in DOMAIN SegmentsAfter(o)
                  /\ k # o.timeSegment
                     => SegmentsAfter(o)[k] = SegmentsBefore(o)[k]]_vars

(* An entry exactly at the horizon (c - 23) was kept by a Record at c. *)
C6_Witness ==
  \E m \in DOMAIN slamCounts :
    \E c \in DOMAIN slamCounts[m].statusCodes :
      {CurrentSegment - 23, CurrentSegment}
        \subseteq DOMAIN slamCounts[m].statusCodes[c].segments

(* The counts of the retained segment entries of an outcome, added up. *)
RetainedCount(m, c) ==
  SumOver(DOMAIN slamCounts[m].statusCodes[c].segments,
          [k \in DOMAIN slamCounts[m].statusCodes[c].segments |->
             slamCounts[m].statusCodes[c].segments[k].count])

EverEvicted(m, c) == \E e \in evicted : e[1] = m /\ e[2] = c

SegmentSumWithinCount ==
  \A m \in DOMAIN slamCounts :
    \A c \in DOMAIN slamCounts[m].statusCodes :
      /\ RetainedCount(m, c) <= slamCounts[m].statusCodes[c].count
      /\ ~EverEvicted(m, c)
         => RetainedCount(m, c) = slamCounts[m].statusCodes[c].count

(* C7: after every step the retained segment counts of an outcome add up  *)
(* to at most its lifetime count, and to exactly that count while none of *)
(* its entries has been evicted; no step lowers a lifetime count.         *)
C7_SegmentSum ==
  [][/\ SegmentSumWithinCount'
     /\ \A m \in DOMAIN slamCounts :
          \A c \in DOMAIN slamCounts[m].statusCodes :
            /\ m \in DOMAIN slamCounts'
            /\ c \in DOMAIN slamCounts'[m].statusCodes
            /\ slamCounts'[m].statusCodes[c].count
                 >= slamCounts[m].statusCodes[c].count]_vars

(* After an eviction the retained counts are fewer than the lifetime count. *)
C7_Witness ==
  \E m \in DOMAIN slamCounts :
    \E c \in DOMAIN slamCounts[m].statusCodes :
      /\ EverEvicted(m, c)
      /\ RetainedCount(m, c) = 1
      /\ slamCounts[m].statusCodes[c].count = 2

(* C8: an operation's lifetime count is the sum of the lifetime counts of *)
(* its outcomes.                                                          *)
C8_OperationCountIsSum ==
  \A m \in DOMAIN slamCounts :
    slamCounts[m].count =
      SumOver(DOMAIN slamCounts[m].statusCodes,
              [c \in DOMAIN slamCounts[m].statusCodes |->
                 slamCounts[m].statusCodes[c].count])

(* An operation with two outcomes. *)
C8_Witness ==
  \E m \in DOMAIN slamCounts :
    /\ Cardinality(DOMAIN slamCounts[m].statusCodes) = 2
    /\ slamCounts[m].count = 2

(* C9: after exactly one Record on an empty store there is one operation  *)
(* with one outcome with one segment entry, every count is 1 and every    *)
(* stored average is the duration of that observation.                    *)
C9_FirstRecord ==
  \A o \in DOMAIN observed :
    HowMany(DOMAIN observed) = 1
    => /\ DOMAIN slamCounts = {o.method}
       /\ DOMAIN slamCounts[o.method].statusCodes = {o.statusCode}
       /\ DOMAIN slamCounts[o.method].statusCodes[o.statusCode].segments
            = {o.timeSegment}
       /\ slamCounts[o.method].count = 1
       /\ slamCounts[o.method].statusCodes[o.statusCode].count = 1
       /\ slamCounts[o.method].statusCodes[o.statusCode]
            .segments[o.timeSegment].count = 1
       /\ slamCounts[o.method].statusCodes[o.statusCode]
            .segments[o.timeSegment].avgDurationMs = RatOfInt(o.durationMs)
       /\ slamCounts[o.method].avgDurationMs = RatOfInt(o.durationMs)

(* C10: while nothing has been recorded, GET /slamCounts answers with an  *)
(* empty mapping and does not fail, also when the store did not exist     *)
(* before the request.                                                    *)
C10_EmptySnapshot ==
  \A r \in RequestIds :
    (/\ requests[r].req.route = "/slamCounts"
     /\ requests[r].phase = "responded"
     /\ HowMany(DOMAIN observed) = 0)
    => /\ requests[r].reply = "json"
       /\ requests[r].body = <<>>
       /\ requests[r].statusCode = 200

(* The first request ever is GET /slamCounts and has been answered. *)
C10_Witness ==
  /\ requests[1].req.route = "/slamCounts"
  /\ requests[1].reply = "json"
  /\ requests[1].body = <<>>
  /\ requests[2].phase = "idle"
  /\ HowMany(DOMAIN observed) = 0

(* The step in which request r is answered by the handler of /slamCounts. *)
SnapshotTaken(r) ==
  /\ requests[r].req.route = "/slamCounts"
  /\ requests[r].phase = "handling"
  /\ requests'[r].phase = "responded"

(* The mapping a reply body carries: operation key -> aggregate. *)
StoreOf(body) ==
  [m \in {body[i].key : i \in 1..Len(body)} |->
     (CHOOSE e \in {body[i] : i \in 1..Len(body)} : e.key = m).value]

(* Every admitted observation is reflected at all three levels of store   *)
(* (its segment entry unless that entry was evicted) and nothing else is. *)
Whole(store) ==
  /\ DOMAIN store = {o.method : o \in DOMAIN observed}
  /\ \A m \in DOMAIN store :
       /\ store[m].count = HowMany(ObservedOf(m))
       /\ DOMAIN store[m].statusCodes = {o.statusCode : o \in ObservedOf(m)}
       /\ \A c \in DOMAIN store[m].statusCodes :
            /\ store[m].statusCodes[c].count = HowMany(ObservedAs(m, c))
            /\ \A seg \in DOMAIN store[m].statusCodes[c].segments :
                 /\ store[m].statusCodes[c].segments[seg].count
                      = HowMany(ObservedIn(m, c, seg))
                 /\ store[m].statusCodes[c].segments[seg].avgDurationMs
                      = Mean(ObservedIn(m, c, seg))
            /\ \A o \in ObservedAs(m, c) :
                 \/ o.timeSegment \in DOMAIN store[m].statusCodes[c].segments
                 \/ <<m, c, o.timeSegment>> \in evicted

(* C11: the data a snapshot returns is the store as it stands after a     *)
(* whole number of Record steps: it equals the store of that moment, and  *)
(* each observation admitted so far is in it at every level or not at all *)
(* (an operation-level average is whatever Record stored).                *)
C11_SnapshotReadConsistent ==
  [][\A r \in RequestIds :
       SnapshotTaken(r)
       => /\ requests'[r].reply = "json"
          /\ Len(requests'[r].body) = Cardinality(DOMAIN slamCounts)
          /\ StoreOf(requests'[r].body) = slamCounts
          /\ Whole(StoreOf(requests'[r].body))]_vars

(* A snapshot taken after one request was recorded shows that request. *)
C11_Witness ==
  /\ requests[1].stored = 1
  /\ requests[2].req.route = "/slamCounts"
  /\ requests[2].phase = "responded"
  /\ Len(requests[2].body) = 1
  /\ requests[2].body[1].value.count = 1
  /\ requests[2].body[1].value.statusCodes[200].count = 1

(* The step in which request r is answered by the handler of /slamHealth. *)
HealthTaken(r) ==
  /\ requests[r].req.route = "/slamHealth"
  /\ requests[r].phase = "handling"
  /\ requests'[r].phase = "responded"

(* C12: the handlers of GET /slamCounts and GET /slamHealth leave the     *)
(* store as it was: every operation aggregate, outcome aggregate and      *)
(* segment entry, the set of keys and their order.                        *)
C12_ReadsLeaveStore ==
  [][(\E r \in RequestIds : SnapshotTaken(r) \/ HealthTaken(r))
     => /\ slamCounts' = slamCounts
        /\ keyOrder' = keyOrder
        /\ storeCreated' = storeCreated]_vars

(* A snapshot request was served and recorded, then a health report was   *)
(* computed from the store that holds it.                                 *)
C12_Witness ==
  /\ requests[1].stored = 1
  /\ DOMAIN slamCounts = {<<"GET", " ", "/slamCounts">>}
  /\ requests[2].req.route = "/slamHealth"
  /\ requests[2].phase = "responded"
  /\ requests[2].report.api.totalRequests = 1
  /\ requests[2].report.api.routeCount = 1

(* C13: the mapping GET /slamCounts returns has one entry per operation   *)
(* of the store, each with the stored aggregate (count, average and       *)
(* outcomes), listed in non-increasing order of lifetime count.           *)
C13_SnapshotCompleteAndSorted ==
  [][\A r \in RequestIds :
       SnapshotTaken(r)
       => LET body == requests'[r].body
          IN  /\ Len(body) = Cardinality(DOMAIN slamCounts)
              /\ {body[i].key : i \in 1..Len(body)} = DOMAIN slamCounts
              /\ \A i \in 1..Len(body) :
                   /\ body[i].value.count = slamCounts[body[i].key].count
                   /\ body[i].value.avgDurationMs
                        = slamCounts[body[i].key].avgDurationMs
                   /\ body[i].value.statusCodes
                        = slamCounts[body[i].key].statusCodes
              /\ \A i, j \in 1..Len(body) :
                   i < j => body[i].value.count >= body[j].value.count]_vars

(* The operation created last has the most requests and is listed first. *)
C13_Witness ==
  \E r \in RequestIds :
    /\ requests[r].req.route = "/slamCounts"
    /\ requests[r].phase = "responded"
    /\ Len(requests[r].body) = 2
    /\ requests[r].body[1].key = keyOrder[2]
    /\ requests[r].body[1].value.count > requests[r].body[2].value.count

(* A completion signal of request r has fired. *)
Signalled(r) == requests[r].signals >= 1

C15_RecordingErrorsAbsorbed ==
  \A r \in RequestIds : ~requests[r].uncaught

(* C16: the middleware has called next exactly once for every request it  *)
(* was given, whether its setup completed or a step of its try block      *)
(* threw.                                                                 *)
C16_NextExactlyOnce ==
  \A r \in RequestIds :
    requests[r].phase # "idle" => requests[r].nextCalls = 1

(* C17: a Record for operation A and outcome X leaves every other         *)
(* operation's aggregate, and every other outcome aggregate of A (count   *)
(* and segment map), exactly as they were, entries below the retention    *)
(* horizon included.                                                      *)
C17_RecordTouchesOneOutcome ==
  [][\A o \in DOMAIN observed' :
       JustRecorded(o)
       => /\ \A m \in DOMAIN slamCounts :
               m # o.method
               => /\ m \in DOMAIN slamCounts'
                  /\ slamCounts'[m] = slamCounts[m]
          /\ o.method \in DOMAIN slamCounts
             => \A c \in DOMAIN slamCounts[o.method].statusCodes :
                  c # o.statusCode
                  => /\ c \in DOMAIN slamCounts'[o.method].statusCodes
                     /\ slamCounts'[o.method].statusCodes[c]
                          = slamCounts[o.method].statusCodes[c]]_vars

(* Beside an outcome recorded in the current segment, another outcome of  *)
(* the same operation still holds an entry below the horizon.             *)
C17_Witness ==
  \E m \in DOMAIN slamCounts :
    \E c, x \in DOMAIN slamCounts[m].statusCodes :
      /\ c # x
      /\ CurrentSegment \in DOMAIN slamCounts[m].statusCodes[x].segments
      /\ \E k \in DOMAIN slamCounts[m].statusCodes[c].segments :
           k < CurrentSegment - 23

(* The lifetime counts before a step, 0 for a key that does not exist. *)
OperationCount(counts, m) ==
  IF m \in DOMAIN counts THEN counts[m].count ELSE 0

OutcomeCount(counts, m, c) ==
  IF m \in DOMAIN counts
  THEN IF c \in DOMAIN counts[m].statusCodes
       THEN counts[m].statusCodes[c].count
       ELSE 0
  ELSE 0

(* C18: no step removes an operation key or an outcome key or lowers a    *)
(* lifetime count, and the store once created stays; a step removes a     *)
(* segment entry only if its key is below the current segment - 23; a     *)
(* Record raises the count of its operation and of its outcome by         *)
(* exactly 1.                                                             *)
C18_GrowsExceptEviction ==
  [][/\ storeCreated => storeCreated'
     /\ \A m \in DOMAIN slamCounts :
          /\ m \in DOMAIN slamCounts'
          /\ slamCounts'[m].count >= slamCounts[m].count
          /\ \A c \in DOMAIN slamCounts[m].statusCodes :
               /\ c \in DOMAIN slamCounts'[m].statusCodes
               /\ slamCounts'[m].statusCodes[c].count
                    >= slamCounts[m].statusCodes[c].count
               /\ \A k \in DOMAIN slamCounts[m].statusCodes[c].segments :
                    k \notin DOMAIN slamCounts'[m].statusCodes[c].segments
                    => k < CurrentSegment - 23
     /\ \A o \in DOMAIN observed' :
          JustRecorded(o)
          => /\ OperationCount(slamCounts', o.method)
                  = OperationCount(slamCounts, o.method) + 1
             /\ OutcomeCount(slamCounts', o.method, o.statusCode)
                  = OutcomeCount(slamCounts, o.method, o.statusCode) + 1]_vars

(* Two operations are kept, and one of them has lost a segment entry yet  *)
(* not its outcome.                                                       *)
C18_Witness ==
  /\ Cardinality(DOMAIN slamCounts) = 2
  /\ \E e \in evicted :
       /\ e[2] \in DOMAIN slamCounts[e[1]].statusCodes
       /\ slamCounts[e[1]].statusCodes[e[2]].segments = <<>>
       /\ slamCounts[e[1]].statusCodes[e[2]].count = 1

(* Every aggregate and entry of the store has counted a request. *)
AllCountsPositive ==
  \A m \in DOMAIN slamCounts :
    /\ slamCounts[m].count >= 1
    /\ slamCounts[m].statusCodes # <<>>
    /\ \A c \in DOMAIN slamCounts[m].statusCodes :
         /\ slamCounts[m].statusCodes[c].count >= 1
         /\ \A k \in DOMAIN slamCounts[m].statusCodes[c].segments :
              slamCounts[m].statusCodes[c].segments[k].count >= 1

(* C19: after every step each operation aggregate, outcome aggregate and  *)
(* segment entry has count >= 1, each key has one entry, and a Record     *)
(* for a key that another request created first adds to that entry       *)
(* instead of initialising it again: the outcomes of the operation stay,  *)
(* the segment entries of the outcome stay unless evicted, and the entry  *)
(* of the segment goes from n to n + 1.                                   *)
C19_FirstWritersShareEntry ==
  [][/\ AllCountsPositive'
     /\ Len(keyOrder') = Cardinality(DOMAIN slamCounts')
     /\ \A o \in DOMAIN observed' :
          JustRecorded(o)
          => /\ o.method \in DOMAIN slamCounts
                => /\ slamCounts'[o.method].count = slamCounts[o.method].count + 1
                   /\ DOMAIN slamCounts[o.method].statusCodes
                        \subseteq DOMAIN slamCounts'[o.method].statusCodes
             /\ \A k \in DOMAIN SegmentsBefore(o) :
                  k \in DOMAIN SegmentsAfter(o)
                  => SegmentsAfter(o)[k].count
                       = SegmentsBefore(o)[k].count
                           + (IF k = o.timeSegment THEN 1 ELSE 0)]_vars

(* Two requests for a new operation are in flight together; the one that  *)
(* arrived second has created the entries, the first is about to record.  *)
C19_Witness ==
  /\ requests[2].stored = 1
  /\ requests[1].phase = "responded"
  /\ ~requests[1].slam.logged
  /\ requests[1].signals = 0
  /\ DOMAIN slamCounts = {MethodOf(requests[1].req)}
  /\ requests[1].statusCode
       \in DOMAIN slamCounts[MethodOf(requests[1].req)].statusCodes
  /\ requests[1].slam.timeSegment
       \in DOMAIN slamCounts[MethodOf(requests[1].req)]
                    .statusCodes[requests[1].statusCode].segments

(* The steps in which request r arrives and in which it is recorded. *)
Arrives(r) == requests[r].phase = "idle" /\ requests'[r].phase # "idle"

Records(r) == requests'[r].stored = requests[r].stored + 1

(* The count of a segment entry, 0 while there is no entry. *)
EntryCount(segments, k) ==
  IF k \in DOMAIN segments THEN segments[k].count ELSE 0

(* The request's segment is the current one when it arrives, its Record   *)
(* is made for that segment, and the entry of the segment current at the  *)
(* Record, if it is another one, is neither created nor changed.          *)
CountedAtStart(r, o) ==
  /\ Arrives(r) => requests'[r].slam.timeSegment = CurrentSegment
  /\ (Records(r) /\ JustRecorded(o))
     => /\ o.timeSegment = requests[r].slam.timeSegment
        /\ o.timeSegment <= CurrentSegment
        /\ o.timeSegment # CurrentSegment
           => EntryCount(SegmentsAfter(o), CurrentSegment)
                = EntryCount(SegmentsBefore(o), CurrentSegment)

(* C20 as stated: a request that starts in segment S is counted in S,     *)
(* not in the segment current when its completion signal fires: its       *)
(* Record increments the entry for S.                                     *)
C20_CountedInStartSegment ==
  [][\A r \in RequestIds : \A o \in DOMAIN observed' :
       /\ CountedAtStart(r, o)
       /\ (Records(r) /\ JustRecorded(o))
          => EntryCount(SegmentsAfter(o), o.timeSegment)
               = EntryCount(SegmentsBefore(o), o.timeSegment) + 1]_vars

(* C20 amended: the same while the request completes at most 23 segments  *)
(* after S; when it completes later, the Record leaves no entry for S.    *)
C20_CountedInStartSegmentInWindow ==
  [][\A r \in RequestIds : \A o \in DOMAIN observed' :
       /\ CountedAtStart(r, o)
       /\ (Records(r) /\ JustRecorded(o))
          => IF CurrentSegment <= o.timeSegment + 23
             THEN EntryCount(SegmentsAfter(o), o.timeSegment)
                    = EntryCount(SegmentsBefore(o), o.timeSegment) + 1
             ELSE o.timeSegment \notin DOMAIN SegmentsAfter(o)]_vars

(* The operation created second was started 23 segments before the one   *)
(* created first: it was recorded in segment 123 or later, and it is      *)
(* counted in the segment of its start.                                   *)
C20_Witness ==
  /\ Len(keyOrder) = 2
  /\ \E c, x \in {200, 500} :
       /\ c \in DOMAIN slamCounts[keyOrder[1]].statusCodes
       /\ x \in DOMAIN slamCounts[keyOrder[2]].statusCodes
       /\ DOMAIN slamCounts[keyOrder[1]].statusCodes[c].segments
            = {StartSegment + 23}
       /\ DOMAIN slamCounts[keyOrder[2]].statusCodes[x].segments
            = {StartSegment}

(* C21: two timestamps t1, t2 >= 0 get the same segment exactly when      *)
(* floor(t1 / 300000) = floor(t2 / 300000), whatever the wall clock.      *)
C21_SameSegmentIffSameFloor ==
  applied.kind = "tsToSegment"
  => ((applied.s1 = applied.s2)
      <=> (applied.t1 \div 300000 = applied.t2 \div 300000))

(* C22: tsToSegment(segmentToTs(s)) = s for every segment s >= 0, and     *)
(* segmentToTs(tsToSegment(t)) <= t < segmentToTs(tsToSegment(t) + 1)     *)
(* for every timestamp t >= 0.                                            *)
C22_SegmentToTsInverts ==
  /\ applied.kind = "segmentToTs" => applied.back = applied.seg
  /\ applied.kind = "tsToSegment"
     => (applied.start1 <= applied.t1 /\ applied.t1 < applied.end1)

(* The route pattern of a request as the claim describes it. *)
RoutePattern(q) ==
  IF q.route # ""
  THEN (IF q.baseUrl \in {"", "/"} THEN <<>> ELSE <<q.baseUrl>>) \o <<q.route>>
  ELSE <<"unknown route">>

(* C23: a request is recorded under the key made of its method, one       *)
(* space and its route pattern: the base URL (left out when it is '/')    *)
(* followed by the route path, or "unknown route" when no route was       *)
(* resolved; the key is never empty.                                      *)
C23_OperationKey ==
  applied.kind = "log"
  => /\ applied.method = <<applied.req.method, " ">> \o RoutePattern(applied.req)
     /\ applied.method # <<>>
     /\ applied.keys = {applied.method}

(* A request to a route mounted at '/' was recorded. *)
C23_Witness ==
  /\ applied.kind = "log"
  /\ applied.req.baseUrl = "/"
  /\ applied.keys = {<<"POST", " ", "/items/:id">>}

C25_WindowOfTwentyFour ==
  [][\A o \in DOMAIN observed' :
       JustRecorded(o)
       => /\ now' = now
          /\ Cardinality(DOMAIN SegmentsAfter(o)) <= 24
          /\ \A k \in DOMAIN SegmentsAfter(o) :
               CurrentSegment - 23 <= k /\ k <= CurrentSegment]_vars

(* A request was recorded after the clock had moved on, into a map that   *)
(* was full: the map holds the 24 segments up to the current one.         *)
C25_Witness ==
  \E m \in DOMAIN slamCounts :
    /\ CurrentSegment > StartSegment + 1
    /\ DOMAIN SegmentsOf(slamCounts, m, 200) = (CurrentSegment - 23)..CurrentSegment
    /\ \E r \in RequestIds : requests[r].stored = 1

(* C26 as stated: right after every Record the segment map of the outcome *)
(* that was recorded holds the segment of the observation, with a count   *)
(* of at least 1, however long the request took.                          *)
C26_RecordedSegmentPresent ==
  [][\A o \in DOMAIN observed' :
       JustRecorded(o)
       => EntryCount(SegmentsAfter(o), o.timeSegment) >= 1]_vars

(* C26 amended: it does exactly when the Record is made at most 23        *)
(* segments after the segment in which the request started.               *)
C26_RecordedSegmentPresentInWindow ==
  [][\A o \in DOMAIN observed' :
       JustRecorded(o)
       => (EntryCount(SegmentsAfter(o), o.timeSegment) >= 1
           <=> CurrentSegment <= o.timeSegment + 23)]_vars

(* Both requests are recorded and the clock is 23 segments on. The        *)
(* operation created first has an entry for the current segment, so the   *)
(* one created second was recorded now: it started 23 segments ago and    *)
(* its entry is there.                                                    *)
C26_Witness ==
  /\ CurrentSegment = StartSegment + 23
  /\ \A r \in RequestIds : requests[r].stored = 1
  /\ Len(keyOrder) = 2
  /\ \E c \in {200, 500} :
       EntryCount(SegmentsOf(slamCounts, keyOrder[1], c), CurrentSegment) = 1
  /\ \E x \in {200, 500} :
       EntryCount(SegmentsOf(slamCounts, keyOrder[2], x), StartSegment) = 1

(* The counts, averages and segment maps of a store: everything but the   *)
(* namespaces.                                                            *)
Aggregates(counts) ==
  [m \in DOMAIN counts |->
     [count |-> counts[m].count, avgDurationMs |-> counts[m].avgDurationMs,
      statusCodes |-> counts[m].statusCodes]]

C28_SystemMetricsWindow ==
  [][\A r \in RequestIds :
       (Arrives(r) /\ ~legacy)
       => /\ DOMAIN slamSystemMetrics'.memory = DOMAIN slamSystemMetrics'.cpu
          /\ CurrentSegment \in DOMAIN slamSystemMetrics'.memory
          /\ \A k \in DOMAIN slamSystemMetrics'.memory :
               CurrentSegment - 23 <= k /\ k <= CurrentSegment
          /\ Cardinality(DOMAIN slamSystemMetrics'.memory) <= 24
          /\ Cardinality(DOMAIN slamSystemMetrics'.cpu) <= 24
          /\ \A k \in DOMAIN slamSystemMetrics.memory
                       \cap DOMAIN slamSystemMetrics'.memory :
               slamSystemMetrics'.memory[k] = slamSystemMetrics.memory[k]
          /\ \A k \in DOMAIN slamSystemMetrics.cpu
                       \cap DOMAIN slamSystemMetrics'.cpu :
               slamSystemMetrics'.cpu[k] = slamSystemMetrics.cpu[k]]_vars

(* Two requests have arrived in two segments that follow each other and  *)
(* neither has completed: the maps hold the samples of the 24 segments up *)
(* to the current one, which the second request found full.               *)
C28_Witness ==
  /\ CurrentSegment > StartSegment + 1
  /\ \A r \in RequestIds : requests[r].phase = "handling"
  /\ requests[1].slam.timeSegment = CurrentSegment - 1
  /\ requests[2].slam.timeSegment = CurrentSegment
  /\ DOMAIN slamSystemMetrics.memory = (CurrentSegment - 23)..CurrentSegment
  /\ DOMAIN slamSystemMetrics.cpu = (CurrentSegment - 23)..CurrentSegment

(* The counts of the store, added up: of all operations, and of the       *)
(* outcomes whose status code is 400 or above.                            *)
LifetimeRequests ==
  SumOver(DOMAIN slamCounts, [m \in DOMAIN slamCounts |-> slamCounts[m].count])

LifetimeErrors ==
  LET failed == UNION { { <<m, c>> :
                             c \in {x \in DOMAIN slamCounts[m].statusCodes :
                                      x >= 400} } :
                         m \in DOMAIN slamCounts }
  IN  SumOver(failed,
              [mc \in failed |-> slamCounts[mc[1]].statusCodes[mc[2]].count])

(* C29: in every response of GET /slamHealth totalRequests is the sum of  *)
(* the lifetime counts of the operations of the store, errorCount is the  *)
(* sum of the lifetime counts of the outcomes with a status code of 400   *)
(* or above, and errorCount <= totalRequests.                             *)
C29_HealthTotals ==
  [][\A r \in RequestIds :
       HealthTaken(r)
       => /\ requests'[r].report.api.totalRequests = LifetimeRequests
          /\ requests'[r].report.api.errorCount = LifetimeErrors
          /\ requests'[r].report.api.errorCount
               <= requests'[r].report.api.totalRequests]_vars

(* The second request is answered with a report on a store of 21         *)
(* requests and 3 failures, one of them the first request's.              *)
C29_Witness ==
  /\ requests[2].req.route = "/slamHealth"
  /\ requests[2].phase = "responded"
  /\ requests[2].report.api.totalRequests = 21
  /\ requests[2].report.api.errorCount = 3
  /\ requests[2].report.api.routeCount = 1
  /\ requests[1].stored = 1

(* C30: in every response of GET /slamHealth health.status is 'warning'   *)
(* exactly when at least one of the flags memoryPressure, highErrorRate   *)
(* and highLoad of the same response is true, and 'healthy' otherwise.    *)
C30_WarningIffAnyFlag ==
  [][\A r \in RequestIds :
       HealthTaken(r)
       => LET health == requests'[r].report.health
          IN  /\ health.status \in {"warning", "healthy"}
              /\ health.status = "warning"
                 <=> (health.memoryPressure \/ health.highErrorRate
                      \/ health.highLoad)]_vars

====
